---- MODULE Spec2Model ----
(***************************************************************************)
(* Model of src/lib/server/token.ts: the access-token validator, the       *)
(* refresh coordinator built on the module-level refreshingStates map, and *)
(* the resolvers getUserFromToken / isAuthenticated / requireAuth.         *)
(*                                                                         *)
(* JavaScript runs one task at a time, so every action below is the code   *)
(* that runs between two awaits of one async call.  A call is suspended at *)
(* the awaits of ValidateAccess, of the 100 ms poll timer and of            *)
(* event.fetch; these are the values of pc.                                *)
(*                                                                         *)
(* Strings that are taken apart by the code (URLs, form values) are        *)
(* sequences of one-character strings; opaque strings (tokens, keys) are   *)
(* strings.                                                                *)
(*                                                                         *)
(* The module also models two closures of src/lib/common/validation.ts:    *)
(* the form validator made by createFormValidator (variable form) and the  *)
(* function made by debounce (variable debouncer); the submit function     *)
(* made by enhanceForm of src/lib/client/form.ts (variable enhance); and   *)
(* one createApiRequest call of src/lib/server/api.ts (variable api).      *)
(***************************************************************************)
EXTENDS Integers, Sequences, FiniteSets, TLC

VARIABLES refreshingStates, now, call, form, debouncer, enhance, api

vars == <<refreshingStates, now, call, form, debouncer, enhance, api>>
tokenVars == <<refreshingStates, now, call>>

\* Concurrent requests, and seconds of wall-clock time that pass.
NumCalls == 2
MaxNow == 1

\* Milliseconds of timer time, calls of a debounced function, and its delay.
MaxClock == 4
MaxDebCalls == 3
MaxDelay == 2

Calls == 1..NumCalls

\* ------------------------------------------------------ program constants
EXPIRY_BUFFER == 30
MaxAttempts == 30
ExpectedIssuer == "auth:auth"
DefaultSessionId == "default"
LoginPath == <<"/auth/login">>
ReturnUrlParam == <<"?returnUrl=">>

\* ------------------------------------------------------------- outcomes
None == [kind |-> "none"]
Null == [kind |-> "null"]
Claims(p) == [kind |-> "claims", payload |-> p]
Thrown(msg, status) == [kind |-> "error", message |-> msg, status |-> status]
Redirect(status, location) == [kind |-> "redirect", status |-> status, location |-> location]
Bool(b) == [kind |-> "bool", value |-> b]

\* ---------------------------------------------------------------- tokens
\* A signed token is an opaque string; Decode is what verification reads
\* out of it.  exp = -1 stands for a payload without an exp claim.
NoExp == -1

Decode(jwt) ==
  CASE jwt = "tFresh"  -> [sig |-> TRUE,  iss |-> "auth:auth", exp |-> 100,   sub |-> "u1"]
    [] jwt = "tEdge"   -> [sig |-> TRUE,  iss |-> "auth:auth", exp |-> 30,    sub |-> "u1"]
    [] jwt = "tSoon"   -> [sig |-> TRUE,  iss |-> "auth:auth", exp |-> 29,    sub |-> "u2"]
    [] jwt = "tLate"   -> [sig |-> TRUE,  iss |-> "auth:auth", exp |-> 1,     sub |-> "u2"]
    [] jwt = "tPast"   -> [sig |-> TRUE,  iss |-> "auth:auth", exp |-> 0,     sub |-> "u2"]
    [] jwt = "tNoExp"  -> [sig |-> TRUE,  iss |-> "auth:auth", exp |-> NoExp, sub |-> "u3"]
    [] jwt = "tForged" -> [sig |-> FALSE, iss |-> "auth:auth", exp |-> 100,   sub |-> "u1"]
    [] jwt = "tAlien"  -> [sig |-> TRUE,  iss |-> "other",     exp |-> 100,   sub |-> "u1"]
    [] OTHER           -> [sig |-> FALSE, iss |-> "",          exp |-> NoExp, sub |-> ""]

Payload(jwt) == [iss |-> Decode(jwt).iss, exp |-> Decode(jwt).exp, sub |-> Decode(jwt).sub]

\* jose's jwtVerify with {issuer: 'auth:auth'}: signature, then issuer, then
\* the exp claim against the current time in whole seconds.
jwtVerify(jwt, t) ==
  LET d == Decode(jwt) IN
  IF ~d.sig THEN Thrown("signature verification failed", 0)
  ELSE IF d.iss # ExpectedIssuer THEN Thrown("unexpected iss claim value", 0)
  ELSE IF d.exp # NoExp /\ d.exp <= t THEN Thrown("exp claim timestamp check failed", 0)
  ELSE Claims(Payload(jwt))

\* The buffer comparison with <= instead of <.
ValidateAccessInclusive(jwt, t) ==
  LET v == jwtVerify(jwt, t) IN
  IF v.kind # "claims" THEN v
  ELSE IF v.payload.exp # NoExp /\ v.payload.exp # 0 /\ v.payload.exp - t <= EXPIRY_BUFFER
       THEN Thrown("Token about to expire", 0)
       ELSE v

\* Returning the payload with exp moved forward by the buffer.
ValidateAccessShiftsExp(jwt, t) ==
  LET v == jwtVerify(jwt, t) IN
  IF v.kind # "claims" THEN v
  ELSE IF v.payload.exp # NoExp /\ v.payload.exp # 0 /\ v.payload.exp - t < EXPIRY_BUFFER
       THEN Thrown("Token about to expire", 0)
       ELSE Claims([v.payload EXCEPT !.exp = @ - EXPIRY_BUFFER])

\* Line 25 skips the buffer check when exp is missing or falsy (0).
ValidateAccess(jwt, t) ==
  LET v == jwtVerify(jwt, t) IN
  IF v.kind # "claims" THEN v
  ELSE IF v.payload.exp # NoExp /\ v.payload.exp # 0 /\ v.payload.exp - t < EXPIRY_BUFFER
       THEN Thrown("Token about to expire", 0)
       ELSE v

\* ------------------------------------------------------------------ URLs
Unreserved ==
  {"a", "b", "c", "d", "e", "q", "x", "A", "B", "C", "D", "E", "F",
   "0", "1", "2", "3", "4", "5", "6", "7", "8", "9",
   "-", "_", ".", "!", "~", "*", "'", "(", ")"}

PercentCode(ch) ==
  CASE ch = "/" -> <<"%", "2", "F">>
    [] ch = "?" -> <<"%", "3", "F">>
    [] ch = "=" -> <<"%", "3", "D">>
    [] ch = "&" -> <<"%", "2", "6">>
    [] ch = " " -> <<"%", "2", "0">>
    [] ch = "%" -> <<"%", "2", "5">>
    [] ch = "#" -> <<"%", "2", "3">>
    [] OTHER    -> <<"%", "3", "F">>

RECURSIVE encodeURIComponent(_)
encodeURIComponent(s) ==
  IF s = <<>> THEN <<>>
  ELSE (IF Head(s) \in Unreserved THEN <<Head(s)>> ELSE PercentCode(Head(s)))
       \o encodeURIComponent(Tail(s))

\* ------------------------------------------------------------ the calls
IdleCall ==
  [pc |-> "idle", entry |-> "", event |-> None, accessToken |-> "", sessionId |-> "",
   attempts |-> 0,
   jwt |-> "", exchanges |-> 0, waited |-> "no", marked |-> FALSE, logged |-> None,
   refreshed |-> None, user |-> None, result |-> None]

\* isAuthenticated without its try/catch.
isAuthenticatedNoCatch(u) ==
  IF u.kind \in {"redirect", "error"} THEN u ELSE Bool(u.kind = "claims")

isAuthenticated(u) ==
  IF u.kind \in {"redirect", "error"} THEN Bool(FALSE) ELSE Bool(u.kind = "claims")

\* requireAuth putting the URL into the query unescaped.
requireAuthRaw(u, ev) ==
  IF u.kind \in {"redirect", "error"} THEN u
  ELSE IF u.kind # "claims"
       THEN Redirect(302, LoginPath \o ReturnUrlParam \o ev.pathname \o ev.search)
       ELSE u

\* requireAuth catching what getUserFromToken throws and redirecting itself.
requireAuthConverts(u, ev) ==
  IF u.kind # "claims"
  THEN Redirect(302, LoginPath \o ReturnUrlParam \o encodeURIComponent(ev.pathname \o ev.search))
  ELSE u

requireAuth(u, ev) ==
  IF u.kind \in {"redirect", "error"} THEN u
  ELSE IF u.kind # "claims"
       THEN Redirect(302, LoginPath \o ReturnUrlParam \o encodeURIComponent(ev.pathname \o ev.search))
       ELSE u

\* The outcome of the exported function the request entered through, given
\* the outcome u of getUserFromToken.
EntryResult(c, u) ==
  CASE c.entry = "isAuthenticated" -> isAuthenticated(u)
    [] c.entry = "requireAuth"     -> requireAuth(u, c.event)
    [] OTHER                       -> u

\* getUserFromToken settles with u.
SettleUser(c, u) ==
  [c EXCEPT !.pc = "done", !.user = u, !.result = EntryResult(c, u)]

\* getUserFromToken catching the failure of the refresh and returning null.
SettleRefreshSwallows(c, h) ==
  IF c.entry = "handleTokenRefresh"
  THEN [c EXCEPT !.pc = "done", !.refreshed = h, !.result = h]
  ELSE SettleUser([c EXCEPT !.refreshed = h], IF h.kind = "claims" THEN h ELSE Null)

\* handleTokenRefresh settles with h; getUserFromToken returns what it awaited.
SettleRefresh(c, h) ==
  IF c.entry = "handleTokenRefresh"
  THEN [c EXCEPT !.pc = "done", !.refreshed = h, !.result = h]
  ELSE SettleUser([c EXCEPT !.refreshed = h], h)

\* The failure path without the finally block: the mark stays.
FailRefreshKeepsMark(c, locks, err) ==
  [call  |-> SettleRefresh([c EXCEPT !.logged = err], Redirect(302, LoginPath)),
   locks |-> locks]

\* The catch block rethrowing the error it caught.
FailRefreshRethrows(c, locks, err) ==
  [call  |-> SettleRefresh([c EXCEPT !.logged = err], err),
   locks |-> locks \ {c.sessionId}]

\* catch + finally of handleTokenRefresh (lines 96-102).
FailRefresh(c, locks, err) ==
  [call  |-> SettleRefresh([c EXCEPT !.logged = err], Redirect(302, LoginPath)),
   locks |-> locks \ {c.sessionId}]

\* The exchange started before the refresh token is looked at.
BeginRefreshFetchesFirst(c0, locks) ==
  LET c == [c0 EXCEPT !.marked = TRUE] IN
  [call  |-> [c EXCEPT !.pc = "fetch", !.exchanges = @ + 1],
   locks |-> locks \cup {c.sessionId}]

\* Lines 71-84: mark, read the refresh token, start the exchange.  marked
\* records that line 71 has run in this call.
BeginRefresh(c0, locks) ==
  LET c == [c0 EXCEPT !.marked = TRUE] IN
  IF c.event.refreshToken = ""
  THEN FailRefresh(c, locks \cup {c.sessionId}, Thrown("No refresh token available", 0))
  ELSE [call  |-> [c EXCEPT !.pc = "fetch", !.exchanges = @ + 1],
        locks |-> locks \cup {c.sessionId}]

\* The wait loop giving up with an error once the cap is reached.
AfterWaitTimeoutFails(c0, locks) ==
  LET c == [c0 EXCEPT !.attempts = 0,
                      !.waited = IF c0.attempts < MaxAttempts THEN "cleared" ELSE "capped"] IN
  IF c0.attempts >= MaxAttempts
  THEN FailRefresh(c, locks, Thrown("Refresh wait timed out", 0))
  ELSE IF c.event.accessToken # ""
       THEN [call |-> [c EXCEPT !.pc = "validateWaited", !.jwt = c.event.accessToken],
             locks |-> locks]
       ELSE BeginRefresh(c, locks)

\* A waiter going to its own refresh without looking at the store.
AfterWaitAlwaysRefreshes(c0, locks) ==
  LET c == [c0 EXCEPT !.attempts = 0,
                      !.waited = IF c0.attempts < MaxAttempts THEN "cleared" ELSE "capped"] IN
  BeginRefresh(c, locks)

\* Lines 60-68: after the wait loop, look at the stored access token.  The
\* counter of line 53 goes out of scope here; waited keeps how the loop ended.
AfterWait(c0, locks) ==
  LET c == [c0 EXCEPT !.attempts = 0,
                      !.waited = IF c0.attempts < MaxAttempts THEN "cleared" ELSE "capped"] IN
  IF c.event.accessToken # ""
  THEN [call |-> [c EXCEPT !.pc = "validateWaited", !.jwt = c.event.accessToken], locks |-> locks]
  ELSE BeginRefresh(c, locks)

\* One flag for all sessions: any marked key makes the caller wait.
handleTokenRefreshAnyKey(c, locks) ==
  IF locks # {}
  THEN [call |-> [c EXCEPT !.pc = "sleep", !.attempts = 0], locks |-> locks]
  ELSE BeginRefresh(c, locks)

\* Lines 51-57 at entry: attempts = 0, so a marked key always sleeps once.
handleTokenRefresh(c, locks) ==
  IF c.sessionId \in locks
  THEN [call |-> [c EXCEPT !.pc = "sleep", !.attempts = 0], locks |-> locks]
  ELSE BeginRefresh(c, locks)

\* getUserFromToken with a plain else: it refreshes without a refresh token.
getUserFromTokenAlwaysRefreshes(c0, locks) ==
  LET c == [c0 EXCEPT !.accessToken = c0.event.accessToken,
                      !.sessionId = IF c0.event.header # "" THEN c0.event.header
                                     ELSE IF c0.event.sessionCookie # ""
                                          THEN c0.event.sessionCookie
                                          ELSE DefaultSessionId] IN
  IF c.event.accessToken # ""
  THEN [call |-> [c EXCEPT !.pc = "validate", !.jwt = c.event.accessToken], locks |-> locks]
  ELSE handleTokenRefresh(c, locks)

\* The session cookie taking precedence over the header.
SessionIdOfCookieFirst(ev) ==
  IF ev.sessionCookie # "" THEN ev.sessionCookie
  ELSE IF ev.header # "" THEN ev.header
  ELSE DefaultSessionId

SessionIdOf(ev) ==
  IF ev.header # "" THEN ev.header
  ELSE IF ev.sessionCookie # "" THEN ev.sessionCookie
  ELSE DefaultSessionId

\* Lines 113-136 up to the first await.  accessToken is the constant of
\* line 113.
getUserFromToken(c0, locks) ==
  LET c == [c0 EXCEPT !.accessToken = c0.event.accessToken,
                      !.sessionId = SessionIdOf(c0.event)] IN
  IF c.event.accessToken # ""
  THEN [call |-> [c EXCEPT !.pc = "validate", !.jwt = c.event.accessToken], locks |-> locks]
  ELSE IF c.event.refreshToken # ""
       THEN handleTokenRefresh(c, locks)
       ELSE [call |-> SettleUser(c, Null), locks |-> locks]

\* ---------------------------------------------------------------- inputs
Keys == {DefaultSessionId, "k1"}
Statuses == {200, 401}
IssuedTokens == {"", "tFresh", "tEdge"}

\* The requests of the concurrent specification: both coordinator entry
\* points, requests that differ in their credentials and session cookie.
CoreEntries == {"handleTokenRefresh", "getUserFromToken"}
CoreEvents ==
  [header: {""}, sessionCookie: {"", "k1"}, accessToken: {"", "tFresh", "tEdge"},
   refreshToken: {"", "rt"}, pathname: {<<"/", "a">>}, search: {<<>>}]

\* --------------------------------------------------------------- actions
Apply(r, s) ==
  /\ call' = [call EXCEPT ![r] = s.call]
  /\ refreshingStates' = s.locks
  /\ UNCHANGED <<now, form, debouncer, enhance, api>>

\* A request enters through one of the exported functions.  The sessionId
\* argument of a direct handleTokenRefresh call is sid.
Invoke(r, entries, events) ==
  /\ call[r].pc = "idle"
  /\ \E e \in entries, ev \in events, sid \in Keys :
       LET c == [IdleCall EXCEPT !.entry = e, !.event = ev] IN
       IF e = "handleTokenRefresh"
       THEN Apply(r, handleTokenRefresh([c EXCEPT !.sessionId = sid], refreshingStates))
       ELSE /\ sid = DefaultSessionId
            /\ Apply(r, getUserFromToken(c, refreshingStates))

\* Line 122 going on to the refresh although the token was valid.
ValidateDoneAlwaysRefreshes(r) ==
  /\ call[r].pc = "validate"
  /\ LET c == call[r]
         v == ValidateAccess(c.jwt, now) IN
     IF c.event.refreshToken # ""
     THEN Apply(r, handleTokenRefresh(c, refreshingStates))
     ELSE IF v.kind = "claims"
          THEN Apply(r, [call |-> SettleUser(c, v), locks |-> refreshingStates])
          ELSE Apply(r, [call |-> SettleUser(c, Null), locks |-> refreshingStates])

\* The catch of line 123 going to the refresh without a refresh token.
ValidateDoneRefreshesWithoutToken(r) ==
  /\ call[r].pc = "validate"
  /\ LET c == call[r]
         v == ValidateAccess(c.jwt, now) IN
     IF v.kind = "claims"
     THEN Apply(r, [call |-> SettleUser(c, v), locks |-> refreshingStates])
     ELSE Apply(r, handleTokenRefresh(c, refreshingStates))

\* Line 122 settles.
ValidateDone(r) ==
  /\ call[r].pc = "validate"
  /\ LET c == call[r]
         v == ValidateAccess(c.jwt, now) IN
     IF v.kind = "claims"
     THEN Apply(r, [call |-> SettleUser(c, v), locks |-> refreshingStates])
     ELSE IF c.event.refreshToken # ""
          THEN Apply(r, handleTokenRefresh(c, refreshingStates))
          ELSE Apply(r, [call |-> SettleUser(c, Null), locks |-> refreshingStates])

\* The wait loop looking at the stored token on every round.
PollWakeChecksStore(r) ==
  /\ call[r].pc = "sleep"
  /\ LET c == [call[r] EXCEPT !.attempts = @ + 1] IN
     IF /\ c.sessionId \in refreshingStates /\ c.attempts < MaxAttempts
        /\ ValidateAccess(c.event.accessToken, now).kind # "claims"
     THEN Apply(r, [call |-> c, locks |-> refreshingStates])
     ELSE Apply(r, AfterWait(c, refreshingStates))

\* The wait loop without its attempt cap.
PollWakeNoCap(r) ==
  /\ call[r].pc = "sleep"
  /\ LET c == call[r] IN
     IF c.sessionId \in refreshingStates
     THEN Apply(r, [call |-> c, locks |-> refreshingStates])
     ELSE Apply(r, AfterWait(c, refreshingStates))

\* The loop condition with attempts <= 30.
PollWakeOneMore(r) ==
  /\ call[r].pc = "sleep"
  /\ LET c == [call[r] EXCEPT !.attempts = @ + 1] IN
     IF c.sessionId \in refreshingStates /\ c.attempts <= MaxAttempts
     THEN Apply(r, [call |-> c, locks |-> refreshingStates])
     ELSE Apply(r, AfterWait(c, refreshingStates))

\* The 100 ms timer of line 55 fires.
PollWake(r) ==
  /\ call[r].pc = "sleep"
  /\ LET c == [call[r] EXCEPT !.attempts = @ + 1] IN
     IF c.sessionId \in refreshingStates /\ c.attempts < MaxAttempts
     THEN Apply(r, [call |-> c, locks |-> refreshingStates])
     ELSE Apply(r, AfterWait(c, refreshingStates))

\* The waiter's early return also deleting the mark.
ValidateWaitedDoneClears(r) ==
  /\ call[r].pc = "validateWaited"
  /\ LET c == call[r]
         v == ValidateAccess(c.jwt, now) IN
     IF v.kind = "claims"
     THEN Apply(r, [call |-> SettleRefresh(c, v), locks |-> refreshingStates \ {c.sessionId}])
     ELSE Apply(r, BeginRefresh(c, refreshingStates))

\* The waiter's early return setting the mark of its key on the way out.
ValidateWaitedDoneMarks(r) ==
  /\ call[r].pc = "validateWaited"
  /\ LET c == call[r]
         v == ValidateAccess(c.jwt, now) IN
     IF v.kind = "claims"
     THEN Apply(r, [call |-> SettleRefresh(c, v), locks |-> refreshingStates \cup {c.sessionId}])
     ELSE Apply(r, BeginRefresh(c, refreshingStates))

\* Line 63 settles.
ValidateWaitedDone(r) ==
  /\ call[r].pc = "validateWaited"
  /\ LET c == call[r]
         v == ValidateAccess(c.jwt, now) IN
     IF v.kind = "claims"
     THEN Apply(r, [call |-> SettleRefresh(c, v), locks |-> refreshingStates])
     ELSE Apply(r, BeginRefresh(c, refreshingStates))

\* Line 90 reading the refreshToken cookie instead of accessToken.
AfterFetchReadsRefreshCookie(c0, locks, resp) ==
  LET c == IF resp.issued = "" THEN c0 ELSE [c0 EXCEPT !.event.accessToken = resp.issued] IN
  IF resp.threw
  THEN FailRefresh(c0, locks, Thrown("fetch failed", 0))
  ELSE IF resp.status # 200
       THEN FailRefresh(c, locks, Thrown("Refresh failed with status", resp.status))
       ELSE [call  |-> [c EXCEPT !.pc = "validateNew", !.jwt = c.event.refreshToken],
             locks |-> locks]

\* Lines 86-95 once the exchange of line 79 has settled with response resp.
AfterFetch(c0, locks, resp) ==
  LET c == IF resp.issued = "" THEN c0 ELSE [c0 EXCEPT !.event.accessToken = resp.issued] IN
  IF resp.threw
  THEN FailRefresh(c0, locks, Thrown("fetch failed", 0))
  ELSE IF resp.status # 200
       THEN FailRefresh(c, locks, Thrown("Refresh failed with status", resp.status))
       ELSE IF c.event.accessToken = ""
            THEN FailRefresh(c, locks, Thrown("No new access token provided after refresh", 0))
            ELSE [call  |-> [c EXCEPT !.pc = "validateNew", !.jwt = c.event.accessToken],
                  locks |-> locks]

\* The exchange settles: it throws, or answers with a status and possibly a
\* new accessToken cookie.
FetchDone(r) ==
  /\ call[r].pc = "fetch"
  /\ \E threw \in BOOLEAN, status \in Statuses, issued \in IssuedTokens :
       /\ threw => status = 200 /\ issued = ""
       /\ status # 200 => issued = ""
       /\ Apply(r, AfterFetch(call[r], refreshingStates,
                              [threw |-> threw, status |-> status, issued |-> issued]))

\* Line 95 settles.
ValidateNewDone(r) ==
  /\ call[r].pc = "validateNew"
  /\ LET c == call[r]
         v == ValidateAccess(c.jwt, now) IN
     IF v.kind = "claims"
     THEN Apply(r, [call |-> SettleRefresh(c, v), locks |-> refreshingStates \ {c.sessionId}])
     ELSE Apply(r, FailRefresh(c, refreshingStates, v))

\* The credential store of a sleeping caller is updated from outside.
StoreUpdate(r) ==
  /\ call[r].pc = "sleep"
  /\ \E t \in IssuedTokens \ {"", call[r].event.accessToken} :
       call' = [call EXCEPT ![r].event.accessToken = t]
  /\ UNCHANGED <<refreshingStates, now, form, debouncer, enhance, api>>

\* The caller has consumed the outcome; the next request can arrive.
Release(r) ==
  /\ call[r].pc = "done"
  /\ call' = [call EXCEPT ![r] = IdleCall]
  /\ UNCHANGED <<refreshingStates, now, form, debouncer, enhance, api>>

Tick ==
  /\ now < MaxNow
  /\ now' = now + 1
  /\ UNCHANGED <<refreshingStates, call, form, debouncer, enhance, api>>

\* --------------------------------------------- validation.ts: form state
\* String.prototype.trim on a sequence of characters (blank is " ").
RECURSIVE TrimStart(_)
TrimStart(s) == IF s # <<>> /\ Head(s) = " " THEN TrimStart(Tail(s)) ELSE s

RECURSIVE TrimEnd(_)
TrimEnd(s) ==
  IF s # <<>> /\ s[Len(s)] = " " THEN TrimEnd(SubSeq(s, 1, Len(s) - 1)) ELSE s

Trim(s) == TrimEnd(TrimStart(s))

\* An error message; null is Null.
Message(parts) == [kind |-> "string", text |-> parts]

validateMinLength(value, minLength) ==
  IF value = <<>> \/ Len(Trim(value)) < minLength
  THEN Message(<<"Must be at least ", ToString(minLength), " characters">>)
  ELSE Null

validateRequired(fieldName, value) ==
  IF value = <<>> \/ Trim(value) = <<>>
  THEN Message(<<fieldName, " is required">>)
  ELSE Null

\* The form of the model: three text fields, two of them with a validator.
FormFields == {"name", "password", "note"}
SchemaFields == <<"name", "password">>
FormValues == {<<>>, <<" ">>, <<"a">>, <<"a", "b">>}
InitialValues ==
  {[f \in FormFields |-> <<>>],
   [f \in FormFields |-> IF f = "name" THEN <<"a">> ELSE <<>>]}

HasValidator(field) == \E i \in 1..Len(SchemaFields) : SchemaFields[i] = field

validationSchema(field, value) ==
  IF field = "name" THEN validateRequired("name", value)
  ELSE validateMinLength(value, 2)

\* {} and { ...obj, [field]: v }.
EmptyObject == [f \in {} |-> Null]
Spread(obj, field, v) ==
  [f \in DOMAIN obj \cup {field} |-> IF f = field THEN v ELSE obj[f]]
Truthy(obj, field) == field \in DOMAIN obj /\ obj[field] = TRUE

\* Lines 145-147 and 191-200: the locals, and the object returned, whose
\* values / errors / touched properties are the objects the locals held then.
createFormValidator(initialValues) ==
  [initialValues |-> initialValues,
   values  |-> initialValues,
   errors  |-> EmptyObject,
   touched |-> EmptyObject,
   exposed |-> [values |-> initialValues, errors |-> EmptyObject, touched |-> EmptyObject],
   returned |-> None]

\* Each function assigns a new object to a local and never writes into the
\* old one, so the properties of the returned object are left as they were.
validateField(F, field) ==
  IF ~HasValidator(field) THEN [F EXCEPT !.returned = Null]
  ELSE LET error == validationSchema(field, F.values[field]) IN
       [F EXCEPT !.errors = Spread(F.errors, field, error), !.returned = error]

RECURSIVE validateAllFrom(_, _, _)
validateAllFrom(F, i, isValid) ==
  IF i > Len(SchemaFields) THEN [F EXCEPT !.returned = Bool(isValid)]
  ELSE LET field == SchemaFields[i]
           G == validateField([F EXCEPT !.touched = Spread(F.touched, field, TRUE)], field) IN
       validateAllFrom(G, i + 1, isValid /\ G.returned = Null)

validateAll(F) == validateAllFrom(F, 1, TRUE)

handleChange(F, field, value) ==
  LET G == [F EXCEPT !.values = Spread(F.values, field, value)]
      H == IF Truthy(G.touched, field) THEN validateField(G, field) ELSE G IN
  [H EXCEPT !.returned = [kind |-> "values", values |-> H.values]]

handleBlur(F, field) ==
  [validateField([F EXCEPT !.touched = Spread(F.touched, field, TRUE)], field)
     EXCEPT !.returned = None]

resetForm(F) ==
  [F EXCEPT !.values = F.initialValues, !.errors = EmptyObject,
            !.touched = EmptyObject, !.returned = None]

\* One call on the returned object; its methods run to completion.
ValidateField(field) ==
  /\ form' = validateField(form, field)
  /\ UNCHANGED <<tokenVars, debouncer, enhance, api>>

ValidateAll ==
  /\ form' = validateAll(form)
  /\ UNCHANGED <<tokenVars, debouncer, enhance, api>>

HandleChange(field, value) ==
  /\ form' = handleChange(form, field, value)
  /\ UNCHANGED <<tokenVars, debouncer, enhance, api>>

HandleBlur(field) ==
  /\ form' = handleBlur(form, field)
  /\ UNCHANGED <<tokenVars, debouncer, enhance, api>>

ResetForm ==
  /\ form' = resetForm(form)
  /\ UNCHANGED <<tokenVars, debouncer, enhance, api>>

\* ------------------------------------------------ validation.ts: debounce
\* Line 266: timeoutId is undefined (0 here) until the first call.  timers is
\* the host's table of pending timeouts, clock its time in milliseconds.
debounce(delay) ==
  [delay |-> delay, timeoutId |-> 0, nextId |-> 1, timers |-> {},
   clock |-> 0, calls |-> <<>>, invoked |-> <<>>]

clearTimeout(timers, id) == {t \in timers : t.id # id}

\* Lines 268-271, without the clearTimeout of line 269.
DebouncedCallNoClear(args) ==
  /\ Len(debouncer.calls) < MaxDebCalls
  /\ debouncer' =
       [debouncer EXCEPT
          !.timers = debouncer.timers \cup
                       {[id |-> debouncer.nextId, due |-> debouncer.clock + debouncer.delay,
                         args |-> args]},
          !.timeoutId = debouncer.nextId,
          !.nextId = @ + 1,
          !.calls = Append(@, [at |-> debouncer.clock, args |-> args])]
  /\ UNCHANGED <<tokenVars, form, enhance, api>>

\* Lines 268-271: one call of the returned function.
DebouncedCall(args) ==
  /\ Len(debouncer.calls) < MaxDebCalls
  /\ debouncer' =
       [debouncer EXCEPT
          !.timers = clearTimeout(debouncer.timers, debouncer.timeoutId) \cup
                       {[id |-> debouncer.nextId, due |-> debouncer.clock + debouncer.delay,
                         args |-> args]},
          !.timeoutId = debouncer.nextId,
          !.nextId = @ + 1,
          !.calls = Append(@, [at |-> debouncer.clock, args |-> args])]
  /\ UNCHANGED <<tokenVars, form, enhance, api>>

\* A pending timeout runs its callback `() => fn(...args)`: never before it
\* is due, possibly later.
TimerFires ==
  /\ \E t \in debouncer.timers :
       /\ t.due <= debouncer.clock
       /\ debouncer' =
            [debouncer EXCEPT
               !.timers = @ \ {t},
               !.invoked = Append(@, [at |-> debouncer.clock, args |-> t.args])]
  /\ UNCHANGED <<tokenVars, form, enhance, api>>

ClockTick ==
  /\ debouncer.clock < MaxClock
  /\ debouncer' = [debouncer EXCEPT !.clock = @ + 1]
  /\ UNCHANGED <<tokenVars, form, enhance, api>>

\* ------------------------------------------------- form.ts: enhanceForm
\* What the submit function was configured with, reduced to what the code
\* branches on: message and handler stand for the entries of messages and
\* handlers for the type of result that arrives; window is the environment.
EnhanceConfigs ==
  [isLoadingStore: BOOLEAN, notificationStore: BOOLEAN, message: BOOLEAN,
   handler: {"none", "resolves", "rejects"}, shouldUpdate: BOOLEAN,
   navigate: {"false", "true", "path"}, window: BOOLEAN]

ResultTypes == {"success", "redirect", "failure", "error"}

\* Lines 163-171.  isLoading is the state of the loading store, trace the
\* calls made on the stores, the handler, update and goto for one submission.
enhanceForm(config) ==
  [config |-> config, pc |-> "ready", result |-> "", isLoading |-> FALSE, trace |-> <<>>]

\* Lines 173-177: the form is submitted.
submitStart(S) ==
  [S EXCEPT !.pc = "pending", !.result = "",
            !.isLoading = IF S.config.isLoadingStore THEN TRUE ELSE @,
            !.trace = IF S.config.isLoadingStore THEN <<"isLoadingStore.true">> ELSE <<>>]

\* showNotification, lines 196-200.
showNotification(S) ==
  IF S.config.notificationStore
  THEN [S EXCEPT !.trace = Append(@, "notificationStore.set")]
  ELSE S

\* Lines 224-247 (redirect) and the breaks of the other cases.
afterHandler(S) ==
  IF S.result # "redirect" THEN [S EXCEPT !.pc = "resolved"]
  ELSE LET U == IF S.config.shouldUpdate THEN [S EXCEPT !.trace = Append(@, "update")] ELSE S IN
       IF S.config.window /\ S.config.navigate # "false"
       THEN [U EXCEPT !.pc = "goto"]
       ELSE [U EXCEPT !.pc = "resolved"]

\* The loading state cleared only at the end of the callback.
onResultClearsLast(S0, type) ==
  LET S == [S0 EXCEPT !.result = type]
      N == IF type \in {"failure", "error"} \/ S.config.message
           THEN showNotification(S) ELSE S
      L == IF N.config.isLoadingStore
           THEN [N EXCEPT !.isLoading = FALSE, !.trace = Append(@, "isLoadingStore.false")]
           ELSE N IN
  IF N.config.handler # "none"
  THEN [N EXCEPT !.pc = "handler", !.trace = Append(@, "handler")]
  ELSE afterHandler(L)

\* Lines 179-266 up to the first await: the result of the action arrives.
onResult(S0, type) ==
  LET S == [S0 EXCEPT !.result = type]
      L == IF S.config.isLoadingStore
           THEN [S EXCEPT !.isLoading = FALSE, !.trace = Append(@, "isLoadingStore.false")]
           ELSE S
      N == IF type \in {"failure", "error"} \/ L.config.message
           THEN showNotification(L) ELSE L IN
  IF N.config.handler # "none"
  THEN [N EXCEPT !.pc = "handler", !.trace = Append(@, "handler")]
  ELSE afterHandler(N)

SubmitStart ==
  /\ enhance.pc \in {"ready", "resolved", "rejected"}
  /\ enhance' = submitStart(enhance)
  /\ UNCHANGED <<tokenVars, form, debouncer, api>>

ResultArrives(type) ==
  /\ enhance.pc = "pending"
  /\ enhance' = onResult(enhance, type)
  /\ UNCHANGED <<tokenVars, form, debouncer, api>>

\* The awaited handler settles; its rejection is the callback's rejection.
HandlerSettles ==
  /\ enhance.pc = "handler"
  /\ enhance' = IF enhance.config.handler = "rejects"
                THEN [enhance EXCEPT !.pc = "rejected"]
                ELSE afterHandler(enhance)
  /\ UNCHANGED <<tokenVars, form, debouncer, api>>

\* Lines 230-245: goto catches its own failure and falls back to
\* window.location, so the await of it always resolves.
GotoSettles ==
  /\ enhance.pc = "goto"
  /\ enhance' = [enhance EXCEPT !.pc = "resolved", !.trace = Append(@, "goto")]
  /\ UNCHANGED <<tokenVars, form, debouncer, api>>

\* ----------------------------------------------- api.ts: createApiRequest
\* A response: its status and what its body is.  "error" is the JSON
\* { error: { message } }, "data" any other JSON value, "text" not JSON.
ApiStatuses == {200, 201, 204, 400, 404, 500}
ApiBodies == {"data", "error", "text"}
Endpoints == {"/api/users", "/api/posts"}
Methods == {"GET", "POST"}
IsOk(status) == status >= 200 /\ status <= 299

IdleRequest ==
  [pc |-> "idle", endpoint |-> "", method |-> "", response |-> None, outcome |-> None]

Resolved(v) == [kind |-> "resolved", value |-> v]
Rejected(e) == [kind |-> "rejected", error |-> e]
Failure(status, message) == [success |-> FALSE, status |-> status, message |-> message]
Success(data) == [success |-> TRUE, data |-> data]

\* Lines 180-186: the catch of createApiRequest, for a thrown value that is
\* an Error (with its message) or is not.
catchNetworkError(isError, message) ==
  Failure(0, IF isError THEN message ELSE "Unknown network error")

\* Lines 99-112: handleApiResponse up to its first await.
handleApiResponse(A, response) ==
  IF ~IsOk(response.status)
  THEN [A EXCEPT !.pc = "json", !.response = response]
  ELSE IF response.status = 204
       THEN [A EXCEPT !.pc = "settled", !.response = response, !.outcome = Resolved(Success("{}"))]
       ELSE [A EXCEPT !.pc = "json", !.response = response]

\* Lines 101-106 and 115-116 after response.json() has settled.  Line 179
\* returns the promise of handleApiResponse without awaiting it, so the
\* try/catch of createApiRequest is left before that promise settles and its
\* rejection is the rejection of createApiRequest.
afterJson(A) ==
  LET response == A.response IN
  IF response.body = "text"
  THEN [A EXCEPT !.pc = "settled", !.outcome = Rejected("SyntaxError")]
  ELSE IF ~IsOk(response.status)
       THEN IF response.body = "error"
            THEN [A EXCEPT !.pc = "settled",
                           !.outcome = Resolved(Failure(response.status, "message of the body"))]
            ELSE [A EXCEPT !.pc = "settled", !.outcome = Rejected("TypeError")]
       ELSE [A EXCEPT !.pc = "settled", !.outcome = Resolved(Success(response.body))]

\* Lines 173-178: the call and its fetch.
CreateApiRequest ==
  /\ api.pc \in {"idle", "settled"}
  /\ \E e \in Endpoints, m \in Methods :
       api' = [IdleRequest EXCEPT !.pc = "fetch", !.endpoint = e, !.method = m]
  /\ UNCHANGED <<tokenVars, form, debouncer, enhance>>

ApiFetchRejects ==
  /\ api.pc = "fetch"
  /\ \E isError \in BOOLEAN :
       api' = [api EXCEPT !.pc = "settled",
                          !.outcome = Resolved(catchNetworkError(isError, "fetch failed"))]
  /\ UNCHANGED <<tokenVars, form, debouncer, enhance>>

ApiFetchResolves ==
  /\ api.pc = "fetch"
  /\ \E status \in ApiStatuses, body \in ApiBodies :
       api' = handleApiResponse(api, [status |-> status, body |-> body])
  /\ UNCHANGED <<tokenVars, form, debouncer, enhance>>

JsonSettles ==
  /\ api.pc = "json"
  /\ api' = afterJson(api)
  /\ UNCHANGED <<tokenVars, form, debouncer, enhance>>

\* ---------------------------------------------------------- specifications
InitToken ==
  /\ refreshingStates = {}
  /\ now = 0
  /\ call = [r \in Calls |-> IdleCall]

InitValidation ==
  /\ form = createFormValidator([f \in FormFields |-> <<>>])
  /\ debouncer = debounce(1)

InitClient ==
  /\ enhance = enhanceForm([isLoadingStore |-> TRUE, notificationStore |-> TRUE,
                            message |-> TRUE, handler |-> "none", shouldUpdate |-> TRUE,
                            navigate |-> "false", window |-> TRUE])
  /\ api = IdleRequest

Init ==
  /\ InitToken
  /\ InitValidation
  /\ InitClient

Next ==
  \/ \E r \in Calls : Invoke(r, CoreEntries, CoreEvents)
  \/ \E r \in Calls : ValidateDone(r)
  \/ \E r \in Calls : PollWake(r)
  \/ \E r \in Calls : ValidateWaitedDone(r)
  \/ \E r \in Calls : FetchDone(r)
  \/ \E r \in Calls : ValidateNewDone(r)
  \/ \E r \in Calls : StoreUpdate(r)
  \/ \E r \in Calls : Release(r)
  \/ Tick

Spec == Init /\ [][Next]_vars

\* One request at a time, entering through any exported function, with
\* every kind of token, both sources of the session key, and URLs with
\* characters that encodeURIComponent escapes.
AllEntries == {"handleTokenRefresh", "getUserFromToken", "isAuthenticated", "requireAuth"}
AllTokens == {"tFresh", "tEdge", "tSoon", "tLate", "tPast", "tNoExp", "tForged", "tAlien"}
AllEvents ==
  [header: {"", "k2"}, sessionCookie: {"", "k1"}, accessToken: {""} \cup AllTokens,
   refreshToken: {"", "rt"},
   pathname: {<<"/">>, <<"/", "a">>},
   search: {<<>>, <<"?", "q", "=", "1", "&", "x", "=", "a">>, <<"?", "q", "=", "%", "2", "0">>}]

NextResolve ==
  \/ Invoke(1, AllEntries, AllEvents)
  \/ ValidateDone(1)
  \/ FetchDone(1)
  \/ ValidateNewDone(1)
  \/ Tick

SpecResolve == Init /\ [][NextResolve]_vars

\* Two concurrent getUserFromToken requests that need a refresh and differ
\* only in where their session key comes from.
KeyEvents ==
  [header: {"", "k2"}, sessionCookie: {"", "k1"}, accessToken: {""},
   refreshToken: {"rt"}, pathname: {<<"/", "a">>}, search: {<<>>}]

NextKeys ==
  \/ \E r \in Calls : Invoke(r, {"getUserFromToken"}, KeyEvents)
  \/ \E r \in Calls : PollWake(r)
  \/ \E r \in Calls : ValidateWaitedDone(r)
  \/ \E r \in Calls : FetchDone(r)
  \/ \E r \in Calls : ValidateNewDone(r)
  \/ \E r \in Calls : StoreUpdate(r)
  \/ \E r \in Calls : Release(r)

SpecKeys == Init /\ [][NextKeys]_vars

\* Concurrent getUserFromToken requests on the key 'default' under a fair
\* scheduler: a timer that is due fires, and an awaited validation or
\* exchange settles.  Requests arriving, the store changing under a sleeper
\* and the caller picking up a result are under no obligation to happen.
LiveEvents ==
  [header: {""}, sessionCookie: {""}, accessToken: {"", "tSoon"},
   refreshToken: {"", "rt"}, pathname: {<<"/", "a">>}, search: {<<>>}]

Resume(r) ==
  \/ ValidateDone(r)
  \/ PollWake(r)
  \/ ValidateWaitedDone(r)
  \/ FetchDone(r)
  \/ ValidateNewDone(r)

NextLive ==
  \/ \E r \in Calls : Invoke(r, {"getUserFromToken"}, LiveEvents)
  \/ \E r \in Calls : Resume(r)
  \/ \E r \in Calls : StoreUpdate(r)
  \/ \E r \in Calls : Release(r)

SpecLive == Init /\ [][NextLive]_vars /\ \A r \in Calls : WF_vars(Resume(r))

\* One form validator and the calls its owner can make on it.
InitForm ==
  /\ InitToken
  /\ form \in {createFormValidator(iv) : iv \in InitialValues}
  /\ debouncer = debounce(1)
  /\ InitClient

NextForm ==
  \/ \E f \in FormFields, v \in FormValues : HandleChange(f, v)
  \/ \E f \in FormFields : HandleBlur(f)
  \/ \E f \in FormFields : ValidateField(f)
  \/ ValidateAll
  \/ ResetForm

SpecForm == InitForm /\ [][NextForm]_vars

\* One debounced function, called with arguments "a" or "b".
DebounceArgs == {"a", "b"}

InitDebounce ==
  /\ InitToken
  /\ form = createFormValidator([f \in FormFields |-> <<>>])
  /\ debouncer \in {debounce(d) : d \in 1..MaxDelay}
  /\ InitClient

NextDebounce ==
  \/ \E a \in DebounceArgs : DebouncedCall(a)
  \/ TimerFires
  \/ ClockTick

SpecDebounce == InitDebounce /\ [][NextDebounce]_vars

\* One submit function made by enhanceForm, with any configuration.
InitEnhance ==
  /\ InitToken
  /\ InitValidation
  /\ enhance \in {enhanceForm(config) : config \in EnhanceConfigs}
  /\ api = IdleRequest

NextEnhance ==
  \/ SubmitStart
  \/ \E type \in ResultTypes : ResultArrives(type)
  \/ HandlerSettles
  \/ GotoSettles

SpecEnhance == InitEnhance /\ [][NextEnhance]_vars

\* createApiRequest calls, one after the other.
NextApi ==
  \/ CreateApiRequest
  \/ ApiFetchRejects
  \/ ApiFetchResolves
  \/ JsonSettles

SpecApi == Init /\ [][NextApi]_vars

TypeOK ==
  /\ refreshingStates \subseteq Keys \cup {"k2"}
  /\ now \in 0..MaxNow

\* ================================================================ claims
Marking(c) == c.pc \in {"fetch", "validateNew"}
Exchanging(r, k) == call[r].pc = "fetch" /\ call[r].sessionId = k

\* handleTokenRefresh of call r settles in this step.
RefreshSettles(r) == call[r].refreshed = None /\ call'[r].refreshed # None

\* C1: for every session key at most one refresh exchange is in flight at
\* any time.
C1_OneExchangePerKey ==
  \A k \in Keys : Cardinality({r \in Calls : Exchanging(r, k)}) <= 1

\* C2: a session key is in refreshingStates if and only if some call for it
\* has set the mark and has not yet run its cleanup.
C2_MarkedIffRefreshing ==
  \A k \in Keys : (k \in refreshingStates) <=>
                  (\E r \in Calls : Marking(call[r]) /\ call[r].sessionId = k)

\* C3: every call that marks its key removes the mark before it completes,
\* so a key in the table always has a marking call still running: whenever
\* no marking call is in flight the table holds no entry for the key.
C3_NoStaleLock ==
  \A k \in refreshingStates : \E r \in Calls : Marking(call[r]) /\ call[r].sessionId = k

C3_Witness ==
  \E r \in Calls :
    /\ call[r].pc = "done" /\ call[r].marked /\ call[r].exchanges = 1
    /\ call[r].refreshed.kind = "redirect"
    /\ \A q \in Calls : ~Marking(call[q])
    /\ refreshingStates = {}

\* C4 as stated: immediately after any handleTokenRefresh call completes, its
\* session key is absent from the table, waiting callers included.
C4_KeyAbsentAfterAnyCall ==
  [][\A r \in Calls : RefreshSettles(r) => call'[r].sessionId \notin refreshingStates']_vars

\* C4 amended: a completing call that marked the key leaves the key absent; a
\* waiting caller that returns the claims found after its wait leaves the
\* table as it was, so the key can still be marked by another running call.
C4_KeyAbsentAfterMarkingCall ==
  [][\A r \in Calls : RefreshSettles(r) =>
        IF call'[r].marked
        THEN call'[r].sessionId \notin refreshingStates'
        ELSE /\ call'[r].waited # "no"
             /\ call'[r].refreshed.kind = "claims"
             /\ refreshingStates' = refreshingStates]_vars

C4_Witness ==
  \E r \in Calls :
    /\ call[r].pc = "done" /\ ~call[r].marked /\ call[r].waited = "capped"
    /\ call[r].refreshed.kind = "claims"
    /\ call[r].sessionId \in refreshingStates

\* C5: a waiter that exhausts the 30-attempt cap without a valid access
\* credential does not fail on the timeout: the step that resolves its
\* post-wait check marks the key, and, holding a refresh credential, it
\* starts its own exchange, so two calls for one key can have two exchanges
\* running at once.
CapResolves(r) ==
  \/ /\ call[r].pc = "sleep"
     /\ call[r].sessionId \in refreshingStates
     /\ call[r].attempts + 1 = MaxAttempts
     /\ call[r].event.accessToken = ""
     /\ call'[r].pc # "sleep"
  \/ /\ call[r].pc = "validateWaited"
     /\ call[r].waited = "capped"
     /\ ValidateAccess(call[r].jwt, now).kind # "claims"
     /\ call'[r].pc # "validateWaited"

C6_NoCredentialsNull ==
  [][\A r \in Calls :
        /\ call[r].pc = "idle" /\ call'[r].pc # "idle"
        /\ call'[r].entry = "getUserFromToken"
        /\ call'[r].event.accessToken = "" /\ call'[r].event.refreshToken = ""
        => /\ call'[r].pc = "done"
           /\ call'[r].user = Null /\ call'[r].result = Null
           /\ call'[r].refreshed = None /\ call'[r].logged = None
           /\ call'[r].exchanges = 0 /\ ~call'[r].marked
           /\ refreshingStates' = refreshingStates]_vars

C6_Witness ==
  \E r \in Calls :
    /\ call[r].pc = "done" /\ call[r].entry = "getUserFromToken"
    /\ call[r].event.accessToken = "" /\ call[r].event.refreshToken = ""
    /\ call[r].result = Null
    /\ call[r].sessionId \in refreshingStates

\* C7: requireAuth returns the claims of getUserFromToken when there are
\* some, and on null redirects with status 302 to /auth/login?returnUrl=
\* followed by the percent-encoding of pathname + search: nothing but
\* unreserved characters and %XX escapes, decoding back to pathname + search.
HexChar(a, b) ==
  CASE <<a, b>> = <<"2", "F">> -> "/"
    [] <<a, b>> = <<"3", "F">> -> "?"
    [] <<a, b>> = <<"3", "D">> -> "="
    [] <<a, b>> = <<"2", "6">> -> "&"
    [] <<a, b>> = <<"2", "0">> -> " "
    [] <<a, b>> = <<"2", "5">> -> "%"
    [] <<a, b>> = <<"2", "3">> -> "#"
    [] OTHER -> "?"

RECURSIVE PercentDecode(_)
PercentDecode(s) ==
  IF s = <<>> THEN <<>>
  ELSE IF Head(s) = "%" /\ Len(s) >= 3
       THEN <<HexChar(s[2], s[3])>> \o PercentDecode(SubSeq(s, 4, Len(s)))
       ELSE <<Head(s)>> \o PercentDecode(Tail(s))

IsLoginRedirectTo(res, url) ==
  /\ res.kind = "redirect"
  /\ res.status = 302
  /\ Len(res.location) >= 2
  /\ res.location[1] = "/auth/login"
  /\ res.location[2] = "?returnUrl="
  /\ LET enc == SubSeq(res.location, 3, Len(res.location)) IN
       /\ \A i \in 1..Len(enc) : enc[i] \in Unreserved \cup {"%"}
       /\ PercentDecode(enc) = url

C7_RequireAuth ==
  \A r \in Calls : call[r].pc = "done" /\ call[r].entry = "requireAuth" =>
    /\ call[r].user.kind = "claims" => call[r].result = call[r].user
    /\ call[r].user.kind = "null" =>
          IsLoginRedirectTo(call[r].result, call[r].event.pathname \o call[r].event.search)

C7_Witness ==
  \E r \in Calls :
    /\ call[r].pc = "done" /\ call[r].entry = "requireAuth"
    /\ call[r].user.kind = "null"
    /\ call[r].event.search = <<"?", "q", "=", "%", "2", "0">>
    /\ call[r].result.location =
         <<"/auth/login", "?returnUrl=", "%", "2", "F", "a",
           "%", "3", "F", "q", "%", "3", "D", "%", "2", "5", "2", "0">>

\* C8: every outcome of requireAuth is the claims or a login redirect that
\* carries the original path and query in returnUrl, whatever caused it.
C8_EveryRedirectCarriesReturnUrl ==
  \A r \in Calls : call[r].pc = "done" /\ call[r].entry = "requireAuth" =>
    \/ call[r].result.kind = "claims"
    \/ IsLoginRedirectTo(call[r].result, call[r].event.pathname \o call[r].event.search)

\* The case of C9: the access credential was present and is about to expire,
\* the call went straight to its own exchange, which answered non-OK.
AboutToExpire(jwt) ==
  /\ ValidateAccess(jwt, now).kind = "error"
  /\ ValidateAccess(jwt, now).message = "Token about to expire"

C9_Case(r) ==
  /\ call[r].pc = "done"
  /\ call[r].entry \in {"getUserFromToken", "requireAuth"}
  /\ call[r].jwt # "" /\ AboutToExpire(call[r].jwt)
  /\ call[r].logged.kind = "error"
  /\ call[r].logged.message = "Refresh failed with status"

\* C9 as stated: getUserFromToken fails with the exchange error carrying the
\* status, and requireAuth turns that failure into a login redirect.
C9_FailsWithExchangeError ==
  \A r \in Calls : C9_Case(r) =>
    /\ call[r].user.kind = "error"
    /\ call[r].user.status = call[r].logged.status
    /\ call[r].entry = "requireAuth" => call[r].result.kind = "redirect"

\* C9 amended: the exchange error (with its status) is only logged;
\* getUserFromToken fails with the redirect 302 to /auth/login raised inside
\* handleTokenRefresh, and requireAuth lets that redirect through unchanged.
C9_FailsWithLoginRedirect ==
  \A r \in Calls : C9_Case(r) =>
    /\ call[r].logged.status \in Statuses \ {200}
    /\ call[r].refreshed = Redirect(302, <<"/auth/login">>)
    /\ call[r].user = call[r].refreshed
    /\ call[r].entry = "requireAuth" => call[r].result = call[r].user

C9_Witness ==
  \E r \in Calls :
    /\ C9_Case(r) /\ call[r].entry = "requireAuth"
    /\ call[r].logged.status = 401
    /\ call[r].result = Redirect(302, <<"/auth/login">>)

C11_IsAuthenticatedSwallows ==
  \A r \in Calls : call[r].pc = "done" /\ call[r].entry = "isAuthenticated" =>
    /\ call[r].result.kind = "bool"
    /\ call[r].result.value = (call[r].user.kind = "claims")

C11_Witness ==
  \E r \in Calls :
    /\ call[r].pc = "done" /\ call[r].entry = "isAuthenticated"
    /\ call[r].user = Redirect(302, <<"/auth/login">>)
    /\ call[r].result = [kind |-> "bool", value |-> FALSE]

\* C12: a present access credential that passes validation is returned
\* directly: no exchange, no wait, no change of the lock table, with or
\* without a refresh credential and whether or not the key is marked.
C12_ValidAccessLeavesTableAlone ==
  [][\A r \in Calls :
        /\ call[r].pc = "validate" /\ call'[r].pc # "validate"
        /\ ValidateAccess(call[r].accessToken, now).kind = "claims"
        => /\ call'[r].pc = "done"
           /\ call'[r].user.kind = "claims"
           /\ call'[r].user.payload.sub = Decode(call[r].accessToken).sub
           /\ call'[r].exchanges = 0 /\ call'[r].waited = "no" /\ ~call'[r].marked
           /\ call'[r].refreshed = None /\ call'[r].logged = None
           /\ refreshingStates' = refreshingStates]_vars

C12_Witness ==
  \E r \in Calls :
    /\ call[r].pc = "done" /\ call[r].entry = "getUserFromToken"
    /\ call[r].user.kind = "claims" /\ call[r].refreshed = None
    /\ call[r].event.refreshToken # ""
    /\ call[r].sessionId \in refreshingStates

\* The key the claims expect getUserFromToken to use.
ExpectedKey(ev) ==
  CASE ev.header # "" -> ev.header
    [] ev.header = "" /\ ev.sessionCookie # "" -> ev.sessionCookie
    [] OTHER -> "default"

\* C13: with a refresh credential present and the access credential absent
\* or failing validation for any reason, handleTokenRefresh is called with
\* the derived key and its outcome is the outcome of getUserFromToken, claims
\* and failure alike.
C13_DelegatesToRefresh ==
  \A r \in Calls :
    /\ call[r].pc = "done"
    /\ call[r].entry # "handleTokenRefresh"
    /\ call[r].event.refreshToken # ""
    => /\ call[r].accessToken = "" => call[r].refreshed # None
       /\ (\A t \in 0..now : ValidateAccess(call[r].accessToken, t).kind # "claims")
             => call[r].refreshed # None
       /\ call[r].refreshed # None =>
             /\ call[r].user = call[r].refreshed
             /\ call[r].sessionId = ExpectedKey(call[r].event)
       /\ call[r].refreshed = None => call[r].user.kind = "claims"

C13_Witness ==
  \E r \in Calls :
    /\ call[r].pc = "done" /\ call[r].entry = "getUserFromToken"
    /\ call[r].accessToken = "tAlien"
    /\ call[r].refreshed.kind = "redirect"
    /\ call[r].user = call[r].refreshed

\* C14: no access credential, a refresh credential, an unmarked key and an
\* exchange that succeeds and leaves a new valid access credential in the
\* store: getUserFromToken returns the claims of the new credential.
C14_Case(r) ==
  /\ call[r].entry = "getUserFromToken"
  /\ call[r].accessToken = ""
  /\ call[r].waited = "no"

C14_RefreshYieldsNewClaims ==
  [][\A r \in Calls : C14_Case(r) =>
        /\ call[r].pc = "fetch" /\ call'[r].pc = "validateNew" =>
              /\ call'[r].event.accessToken # ""
              /\ call'[r].jwt = call'[r].event.accessToken
        /\ /\ call[r].pc = "validateNew" /\ call'[r].pc # "validateNew"
           /\ ValidateAccess(call[r].event.accessToken, now).kind = "claims"
           => /\ call'[r].pc = "done"
              /\ call'[r].user.kind = "claims"
              /\ call'[r].user.payload.sub = Decode(call[r].event.accessToken).sub
              /\ call'[r].user.payload.exp = Decode(call[r].event.accessToken).exp
              /\ call'[r].result = call'[r].user]_vars

C14_Witness ==
  \E r \in Calls :
    /\ call[r].pc = "done" /\ C14_Case(r) /\ call[r].exchanges = 1
    /\ call[r].event.accessToken = "tFresh"
    /\ call[r].user.kind = "claims"
    /\ call[r].user.payload.exp = 100

\* C15: the session key of getUserFromToken is the x-session-id header when
\* non-empty, else the sessionId cookie when non-empty, else 'default'; a
\* request that needs a refresh waits exactly when the entry of that key is
\* set, so requests deriving the same key share one entry.
C15_SessionKey ==
  [][\A r \in Calls :
        /\ call[r].pc = "idle" /\ call'[r].pc # "idle"
        /\ call'[r].entry # "handleTokenRefresh"
        => LET ev == call'[r].event
               k  == ExpectedKey(ev) IN
           /\ call'[r].sessionId = k
           /\ ev.accessToken = "" /\ ev.refreshToken # "" =>
                 /\ (call'[r].pc = "sleep") <=> (k \in refreshingStates)
                 /\ call'[r].pc = "sleep" => refreshingStates' = refreshingStates
                 /\ call'[r].pc # "sleep" =>
                       /\ call'[r].pc = "fetch"
                       /\ refreshingStates' = refreshingStates \cup {k}]_vars

C15_Witness ==
  \E r, q \in Calls :
    /\ call[r].pc = "fetch" /\ call[q].pc = "sleep"
    /\ call[r].event.header = "k2" /\ call[r].event.sessionCookie = "k1"
    /\ call[q].event.header = "k2" /\ call[q].event.sessionCookie = ""
    /\ call[r].sessionId = "k2" /\ call[q].sessionId = "k2"
    /\ refreshingStates = {"k2"}

\* The tokens being validated in this state, with what verification reads.
Validating == {r \in Calls : call[r].pc \in {"validate", "validateWaited", "validateNew"}}
Verifies(jwt) == Decode(jwt).sig /\ Decode(jwt).iss = "auth:auth" /\ Decode(jwt).exp # -1

\* C16 as stated: a credential whose signature and issuer verify fails with
\* the about-to-expire error whenever exp - now < 30 and does not when
\* exp - now >= 30.
C16_AboutToExpireBelowBuffer ==
  \A r \in Validating :
    LET jwt == call[r].jwt
        v   == ValidateAccess(jwt, now) IN
    Verifies(jwt) =>
      /\ Decode(jwt).exp - now < 30 =>
            v.kind = "error" /\ v.message = "Token about to expire"
      /\ Decode(jwt).exp - now >= 30 => v.kind = "claims"

\* C16 amended: the about-to-expire error is raised for 0 < exp - now < 30; a
\* credential with exp <= now has already failed in jwtVerify with its
\* expired-token error; with exp - now >= 30 no error is raised, so the
\* boundary exp - now = 30 is accepted.
C16_BufferBoundary ==
  \A r \in Validating :
    LET jwt == call[r].jwt
        v   == ValidateAccess(jwt, now) IN
    Verifies(jwt) =>
      /\ Decode(jwt).exp - now < 30 /\ Decode(jwt).exp > now =>
            v.kind = "error" /\ v.message = "Token about to expire"
      /\ Decode(jwt).exp <= now =>
            v.kind = "error" /\ v.message = "exp claim timestamp check failed"
      /\ Decode(jwt).exp - now >= 30 => v.kind = "claims"

C16_Witness ==
  /\ now = 1
  /\ \E r \in Validating : call[r].jwt = "tEdge"

\* C17: a credential with a correct signature, issuer 'auth:auth' and exp
\* more than 30 seconds ahead is accepted and the caller gets its decoded
\* payload unmodified, be it from getUserFromToken's own validation or from
\* the validation that ends a refresh.
C17_ReturnsDecodedPayload ==
  [][\A r \in Calls :
        /\ call[r].pc \in {"validate", "validateNew"}
        /\ call'[r].pc # call[r].pc
        /\ Verifies(call[r].jwt)
        /\ Decode(call[r].jwt).exp - now > 30
        => /\ call'[r].pc = "done"
           /\ (IF call[r].pc = "validate" THEN call'[r].user ELSE call'[r].refreshed) =
                [kind |-> "claims",
                 payload |-> [iss |-> Decode(call[r].jwt).iss,
                              exp |-> Decode(call[r].jwt).exp,
                              sub |-> Decode(call[r].jwt).sub]]]_vars

C17_Witness ==
  \E r \in Calls :
    /\ call[r].pc = "done" /\ call[r].entry = "getUserFromToken"
    /\ call[r].accessToken = "tFresh"
    /\ call[r].user = [kind |-> "claims",
                       payload |-> [iss |-> "auth:auth", exp |-> 100, sub |-> "u1"]]

\* A step in which the poll timer of call r fires.
WakeStep(r) ==
  /\ call[r].pc = "sleep"
  /\ call'[r].attempts # call[r].attempts \/ call'[r].pc # "sleep"

\* C20 as stated: a waiter returns as soon as a valid access credential is in
\* the store, without waiting for the mark to clear or for the attempts left.
C20_ReturnsAsSoonAsValid ==
  [][\A r \in Calls :
        WakeStep(r) /\ ValidateAccess(call[r].event.accessToken, now).kind = "claims"
        => call'[r].pc # "sleep"]_vars

\* C20 amended: a waiter does not look at the store while it waits; it sleeps
\* again as long as the key is marked and fewer than 30 attempts have passed,
\* and only after the loop validates the stored access credential once.
C20_StoreReadAfterWait ==
  [][\A r \in Calls : WakeStep(r) =>
        /\ (call'[r].pc = "sleep") <=>
              (call[r].sessionId \in refreshingStates /\ call[r].attempts + 1 < 30)
        /\ call'[r].pc = "sleep" => call'[r].refreshed = None
        /\ call'[r].pc # "sleep" /\ call[r].event.accessToken # "" =>
              /\ call'[r].pc = "validateWaited"
              /\ call'[r].jwt = call[r].event.accessToken]_vars

C20_Witness ==
  \E r \in Calls :
    /\ call[r].pc = "sleep" /\ call[r].attempts >= 2
    /\ call[r].sessionId \in refreshingStates
    /\ ValidateAccess(call[r].event.accessToken, now).kind = "claims"

\* C18: the values, errors and touched properties of the object returned by
\* createFormValidator show the validator's current state after any sequence
\* of handleChange, handleBlur, validateField, validateAll and resetForm.
C18_ExposedReflectsState ==
  /\ form.exposed.values = form.values
  /\ form.exposed.errors = form.errors
  /\ form.exposed.touched = form.touched

\* A burst: every call came less than delay after the one before it.
Burst ==
  \A i \in 2..Len(debouncer.calls) :
    debouncer.calls[i].at - debouncer.calls[i - 1].at < debouncer.delay

\* C19: every call of the debounced function cancels the invocation the
\* previous call scheduled, so at most one is pending and it is the last
\* call's; for a burst of calls fn is invoked at most once, exactly once when
\* nothing is pending any more, with the arguments of the last call and not
\* before delay has passed since that call.
C19_DebounceBurst ==
  LET n == Len(debouncer.calls) IN
  /\ Cardinality(debouncer.timers) <= 1
  /\ \A t \in debouncer.timers :
       /\ n > 0
       /\ t.args = debouncer.calls[n].args
       /\ t.due = debouncer.calls[n].at + debouncer.delay
  /\ n > 0 /\ Burst =>
       /\ Len(debouncer.invoked) <= 1
       /\ debouncer.timers = {} => Len(debouncer.invoked) = 1
       /\ \A i \in 1..Len(debouncer.invoked) :
            /\ debouncer.invoked[i].args = debouncer.calls[n].args
            /\ debouncer.invoked[i].at >= debouncer.calls[n].at + debouncer.delay

C19_Witness ==
  /\ Len(debouncer.calls) = 3 /\ Burst
  /\ debouncer.calls[1].at < debouncer.calls[3].at
  /\ debouncer.calls[1].args = "a" /\ debouncer.calls[3].args = "b"
  /\ debouncer.invoked = <<[at |-> debouncer.calls[3].at + debouncer.delay, args |-> "b"]>>

\* Call r enters handleTokenRefresh in this step: directly, or from
\* getUserFromToken at its entry or after the validation of line 122.
EntersRefresh(r) ==
  /\ call[r].pc \in {"idle", "validate"}
  /\ call'[r].pc \in {"sleep", "fetch"} \/ (call'[r].pc = "done" /\ call'[r].marked)

\* C21: a caller that finds its key marked sleeps at most 30 times: while it
\* sleeps it has completed at most 29 sleeps, a wake that finds the key
\* unmarked ends the wait, and so does the wake after the 30th sleep even
\* though the key is still marked; a caller that finds the key unmarked at
\* entry does not sleep, then or later.
C21_BoundedWait ==
  [][\A r \in Calls :
        /\ call'[r].pc = "sleep" => call'[r].attempts <= 29
        /\ WakeStep(r) /\ call[r].sessionId \notin refreshingStates =>
              call'[r].pc # "sleep"
        /\ WakeStep(r) /\ call[r].attempts = 29 =>
              call'[r].pc # "sleep"
        /\ WakeStep(r) /\ call'[r].pc = "sleep" =>
              call'[r].attempts = call[r].attempts + 1
        /\ EntersRefresh(r) /\ call'[r].sessionId \notin refreshingStates =>
              call'[r].pc # "sleep" /\ call'[r].waited = "no"
        /\ call[r].pc \notin {"idle", "validate", "sleep"} => call'[r].pc # "sleep"]_vars

C21_Witness ==
  \E r \in Calls :
    /\ call[r].waited = "capped"
    /\ call[r].pc = "fetch"
    /\ \E q \in Calls \ {r} : call[q].pc = "fetch" /\ call[q].sessionId = call[r].sessionId

C23_AtomicTestAndSet ==
  \A r, q \in Calls :
    /\ r # q
    /\ call[r].sessionId = call[q].sessionId
    /\ call[r].pc = "fetch" /\ call[q].pc = "fetch"
    => call[r].waited = "capped" \/ call[q].waited = "capped"

\* C24: when the holder of the mark has finished a successful exchange
\* before a waiter reaches its cap and the new valid credential is in the
\* waiter's store, the waiter leaves the loop, validates that credential and
\* returns its claims without an exchange of its own, so the holder's
\* exchange is the only one of the group.
C24_WaitersReuseTheRefresh ==
  [][\A r \in Calls :
        /\ call[r].pc = "validateNew" /\ call'[r].refreshed.kind = "claims" =>
              call[r].sessionId \notin refreshingStates'
        /\ /\ WakeStep(r)
           /\ call[r].attempts + 1 < 30
           /\ call[r].sessionId \notin refreshingStates
           /\ call[r].event.accessToken # ""
           => /\ call'[r].pc = "validateWaited"
              /\ call'[r].jwt = call[r].event.accessToken
              /\ call'[r].exchanges = 0
        /\ /\ call[r].pc = "validateWaited" /\ call'[r].pc # "validateWaited"
           /\ call[r].waited = "cleared"
           /\ ValidateAccess(call[r].event.accessToken, now).kind = "claims"
           => /\ call'[r].pc = "done"
              /\ call'[r].refreshed = ValidateAccess(call[r].event.accessToken, now)
              /\ call'[r].exchanges = 0]_vars

C24_Witness ==
  \E r, q \in Calls :
    /\ call[r].sessionId = call[q].sessionId
    /\ call[r].pc = "done" /\ call[r].marked /\ call[r].waited = "no"
    /\ call[r].refreshed.kind = "claims" /\ call[r].exchanges = 1
    /\ call[q].pc = "done" /\ call[q].waited = "cleared"
    /\ call[q].refreshed.kind = "claims" /\ call[q].exchanges = 0
    /\ call[q].event.accessToken = call[r].event.accessToken

\* C25: an access credential that fails validation with no refresh
\* credential present makes getUserFromToken return null: nothing is thrown,
\* no exchange is invoked and the lock table is unchanged.
C25_InvalidWithoutRefreshIsNull ==
  [][\A r \in Calls :
        /\ call[r].pc = "validate" /\ call'[r].pc # "validate"
        /\ call[r].entry = "getUserFromToken"
        /\ ValidateAccess(call[r].accessToken, now).kind # "claims"
        /\ call[r].event.refreshToken = ""
        => /\ call'[r].pc = "done"
           /\ call'[r].result = [kind |-> "null"]
           /\ call'[r].exchanges = 0
           /\ call'[r].logged = None /\ call'[r].refreshed = None
           /\ refreshingStates' = refreshingStates]_vars

C25_Witness ==
  \E r \in Calls :
    /\ call[r].pc = "done" /\ call[r].entry = "getUserFromToken"
    /\ call[r].accessToken = "tEdge" /\ call[r].event.refreshToken = ""
    /\ call[r].result = [kind |-> "null"]
    /\ refreshingStates # {}

\* C26: a waiter whose post-wait validation of the stored credential
\* succeeds returns in that step: it starts no exchange and the lock table
\* after the step is the table before it, marks of other calls included.
C26_WaiterReturnLeavesTable ==
  [][\A r \in Calls :
        /\ call[r].pc = "validateWaited" /\ call'[r].pc # "validateWaited"
        /\ ValidateAccess(call[r].jwt, now).kind = "claims"
        => /\ refreshingStates' = refreshingStates
           /\ call'[r].pc = "done"
           /\ ~call'[r].marked
           /\ call'[r].exchanges = 0
           /\ \A q \in Calls \ {r} : call'[q] = call[q]]_vars

C26_Witness ==
  \E r, q \in Calls :
    /\ r # q
    /\ call[r].pc = "done" /\ call[r].waited # "no" /\ ~call[r].marked
    /\ call[r].refreshed.kind = "claims"
    /\ call[q].pc = "fetch" /\ call[q].sessionId = call[r].sessionId
    /\ call[r].sessionId \in refreshingStates

\* C27: the entries of different keys are independent: a step changes the
\* entry of key k only if the call that took it uses k, and a caller goes to
\* sleep, or sleeps again, only when the entry of its own key is set.
C27_KeysIndependent ==
  [][/\ \A k \in refreshingStates \cup refreshingStates' :
          (k \in refreshingStates) # (k \in refreshingStates') =>
             \E r \in Calls : call'[r] # call[r] /\ call'[r].sessionId = k
     /\ \A r \in Calls :
          /\ call[r].pc # "sleep" /\ call'[r].pc = "sleep" =>
                call'[r].sessionId \in refreshingStates
          /\ WakeStep(r) /\ call'[r].pc = "sleep" =>
                call[r].sessionId \in refreshingStates
          /\ EntersRefresh(r) /\ call'[r].sessionId \notin refreshingStates =>
                call'[r].pc # "sleep"]_vars

C27_Witness ==
  \E r, q \in Calls :
    /\ call[r].sessionId = "k1" /\ call[q].sessionId = "default"
    /\ call[r].pc = "fetch" /\ call[r].waited = "no"
    /\ call[q].pc = "fetch" /\ call[q].waited = "no"
    /\ refreshingStates = {"default", "k1"}

\* C28: when every exchange and validation settles and the scheduler is
\* fair, every getUserFromToken call completes with claims, null or a
\* redirect, also with concurrent callers on one key, and when no call is
\* running the lock table is empty.
C28_EveryCallCompletes ==
  /\ \A r \in Calls :
       (call[r].pc # "idle") ~>
          (call[r].pc = "done" /\ call[r].result.kind \in {"claims", "null", "redirect"})
  /\ []((\A r \in Calls : call[r].pc \in {"idle", "done"}) => refreshingStates = {})

C28_Witness ==
  /\ refreshingStates = {}
  /\ \A r \in Calls : call[r].pc = "done"
  /\ \E r, q \in Calls :
       /\ call[r].waited = "capped" /\ call[r].exchanges = 1
       /\ call[q].waited = "no" /\ call[q].exchanges = 1
       /\ call[r].result.kind = "redirect" /\ call[q].result.kind = "claims"

\* C29: with an isLoadingStore the store is set to true when the submission
\* starts and to false when the result arrives, for every type of result,
\* before any notification, handler, update or navigation; so it is false
\* while a handler runs and after a handler has failed.
C29_LoadingClearedFirst ==
  enhance.config.isLoadingStore =>
    /\ enhance.pc = "pending" =>
          enhance.isLoading = TRUE /\ enhance.trace = <<"isLoadingStore.true">>
    /\ enhance.pc \in {"handler", "goto", "resolved", "rejected"} =>
          /\ enhance.result \in {"success", "redirect", "failure", "error"}
          /\ enhance.isLoading = FALSE
          /\ Len(enhance.trace) >= 2
          /\ enhance.trace[1] = "isLoadingStore.true"
          /\ enhance.trace[2] = "isLoadingStore.false"
          /\ \A i \in 3..Len(enhance.trace) :
               enhance.trace[i] \notin {"isLoadingStore.true", "isLoadingStore.false"}

C29_Witness ==
  /\ enhance.config.isLoadingStore
  /\ enhance.pc = "rejected"
  /\ enhance.result = "error"
  /\ enhance.trace = <<"isLoadingStore.true", "isLoadingStore.false",
                       "notificationStore.set", "handler">>
  /\ enhance.isLoading = FALSE

\* C30: createApiRequest never rejects: a fetch that fails and a response
\* whose body handleApiResponse cannot process both end in a resolved
\* { success: false, status: 0, message }.
C30_NeverRejects ==
  api.pc = "settled" =>
    /\ api.outcome.kind = "resolved"
    /\ api.response = None => api.outcome.value.success = FALSE /\ api.outcome.value.status = 0
====
